---- MODULE Spec2Model ----
(***************************************************************************)
(* Model of the groundwater potential pipeline of MimicVirgo:              *)
(*   src/03_gw_potential.py  get_dem_value, calculate_potential,           *)
(*                           create_potential_dataset                      *)
(* and of the percentile classifier of its map service:                    *)
(*   src/mapservice.py       calculate_percentile_class                    *)
(*                                                                         *)
(* Numbers.  A Python float is a record [nan, v]: nan marks NaN (pandas'   *)
(* missing value), v is the number in fixed point.  Lengths are held in    *)
(* units of 1/FT_DEN metre (or foot), so that the product with             *)
(* 0.3048 = FT_NUM / FT_DEN is exact for the whole-unit readings the       *)
(* model draws.  Coordinates are whole grid units; the index formula of    *)
(* get_dem_value is a ratio and does not depend on the unit.  Binary       *)
(* rounding of the float operations is not modelled.                       *)
(*                                                                         *)
(* Strings that the code inspects (column names, the depth unit) are       *)
(* tuples of one-character strings.                                        *)
(***************************************************************************)
EXTENDS Integers, Sequences, FiniteSets, TLC

VARIABLES
    dem,          \* the raster array: [shape |-> <<rows, cols>>, data |-> row -> col -> float]
    bounds,       \* the raster's extent: [west, south, east, north]
    http_status,  \* status the elevation service answers a fetch with
    df,           \* the observation table read from depth_csv
    call,         \* the last get_dem_value call and what it did
    conv,         \* the last depth conversion and what it produced
    result,       \* the response of the last dataset computation
    pct_data,     \* a site's percentile record: its boundary values by key
    classified,   \* the last calculate_percentile_class call and what it returned
    wells,        \* the wells the current-levels service answers with
    pct_wells,    \* the wells the percentile service answers with
    points_data,  \* the points of the last fetch_cadwr_data call
    records,      \* the records the measurement service holds for the site
    history       \* the response of the last get_measurement_history call

\* the variables of the CADWR services
cadwr == <<wells, pct_wells, points_data, records, history>>

vars == <<dem, bounds, http_status, df, call, conv, result, pct_data, classified, cadwr>>

----------------------------------------------------------------------------
(* Bounds of the model *)

MaxGridRows == 2      \* raster rows are 1..MaxGridRows
MaxGridCols == 3      \* raster columns are 1..MaxGridCols
MaxExtent == 3        \* east - west and north - south are 1..MaxExtent
MaxTableRows == 3     \* observation tables have 0..MaxTableRows rows
MaxTableCols == 4     \* tables of the inference specification have 0..MaxTableCols columns
MaxDepth == 12        \* raw depth readings of the conversion specification
MaxAnchors == 3       \* drawn percentile records have 0..MaxAnchors non-null boundaries
MaxAnchorValue == 2   \* and boundary values in 0..MaxAnchorValue
MaxWells == 2         \* the current-levels service answers with 0..MaxWells wells
MaxRecords == 3       \* the measurement service holds 0..MaxRecords records of the site

----------------------------------------------------------------------------
(* Floats *)

\* 0.3048 = FT_NUM / FT_DEN in lowest terms, the feet-to-metres factor
FT_NUM == 381
FT_DEN == 1250

NaN == [nan |-> TRUE, v |-> 0]

F(n) == [nan |-> FALSE, v |-> n]

IsNaN(x) == x.nan

\* IEEE comparison: false as soon as one side is NaN
FLe(a, b) == ~a.nan /\ ~b.nan /\ a.v <= b.v

FSub(a, b) == IF a.nan \/ b.nan THEN NaN ELSE F(a.v - b.v)

\* integer quotient rounded toward zero, as Python's int() of a float quotient
TruncDiv(n, d) == IF (n >= 0) = (d > 0) THEN n \div d ELSE -((-n) \div d)

----------------------------------------------------------------------------
(* get_dem_value *)

\* np.clip on a scalar
clipNone(x, lo, hi) == x

clip(x, lo, hi) == IF x < lo THEN lo ELSE IF x > hi THEN hi ELSE x

InBoundsLatOnly(lat, lon, b) == FLe(F(b.south), lat) /\ FLe(lat, F(b.north))

\* the chained comparisons of the guard: false for a NaN coordinate
InBounds(lat, lon, b) ==
    /\ FLe(F(b.west), lon) /\ FLe(lon, F(b.east))
    /\ FLe(F(b.south), lat) /\ FLe(lat, F(b.north))

RawColRounded(lon, d, b) ==
    TruncDiv(2 * (lon.v - b.west) * d.shape[2] + (b.east - b.west), 2 * (b.east - b.west))

RawCol(lon, d, b) == TruncDiv((lon.v - b.west) * d.shape[2], b.east - b.west)

RawRowFromSouth(lat, d, b) ==
    TruncDiv((lat.v - b.south) * d.shape[1], b.north - b.south)

RawRow(lat, d, b) == TruncDiv((b.north - lat.v) * d.shape[1], b.north - b.south)

\* dem[row, col]: numpy counts a negative index from the end and raises
\* IndexError for an index outside the axis
Index(d, row, col) ==
    LET nr == d.shape[1]
        nc == d.shape[2]
        ok == row \in (-nr)..(nr - 1) /\ col \in (-nc)..(nc - 1)
    IN [raised |-> ~ok,
        out |-> IF ok THEN d.data[row % nr][col % nc] ELSE NaN]

\* The whole call: what it returns (out), whether it raised, whether and
\* where it indexed the array, and the row and col it had before np.clip.
get_dem_value(lat, lon, d, b) ==
    IF ~InBounds(lat, lon, b)
    THEN [out |-> NaN, indexed |-> FALSE, raised |-> FALSE, row |-> -1, col |-> -1,
          raw_row |-> -1, raw_col |-> -1]
    ELSE LET col == clip(RawCol(lon, d, b), 0, d.shape[2] - 1)
             row == clip(RawRow(lat, d, b), 0, d.shape[1] - 1)
             cell == Index(d, row, col)
         IN [out |-> cell.out, indexed |-> TRUE, raised |-> cell.raised,
             row |-> row, col |-> col,
             raw_row |-> RawRow(lat, d, b), raw_col |-> RawCol(lon, d, b)]

----------------------------------------------------------------------------
(* get_value, the closure of get_dem_at_points in src/02_dem_elevation.py *)

\* the guard of the closure, on the bounds of the enclosing call
GetValueInBounds(lat, lon, b) ==
    /\ FLe(F(b.west), lon) /\ FLe(lon, F(b.east))
    /\ FLe(F(b.south), lat) /\ FLe(lat, F(b.north))

GetValueRawCol(lon, d, b) == TruncDiv((lon.v - b.west) * d.shape[2], b.east - b.west)

GetValueRawRowFromSouth(lat, d, b) ==
    TruncDiv((lat.v - b.south) * d.shape[1], b.north - b.south)

GetValueRawRow(lat, d, b) == TruncDiv((b.north - lat.v) * d.shape[1], b.north - b.south)

get_value(lat, lon, d, b) ==
    IF ~GetValueInBounds(lat, lon, b)
    THEN [out |-> NaN, indexed |-> FALSE, raised |-> FALSE, row |-> -1, col |-> -1]
    ELSE LET col == clip(GetValueRawCol(lon, d, b), 0, d.shape[2] - 1)
             row == clip(GetValueRawRow(lat, d, b), 0, d.shape[1] - 1)
             cell == Index(d, row, col)
         IN [out |-> cell.out, indexed |-> TRUE, raised |-> cell.raised,
             row |-> row, col |-> col]

----------------------------------------------------------------------------
(* Strings and the depth unit *)

UpperCase == <<"A", "B", "C", "D", "E", "F", "G", "H", "I", "J", "K", "L", "M",
               "N", "O", "P", "Q", "R", "S", "T", "U", "V", "W", "X", "Y", "Z">>

LowerCase == <<"a", "b", "c", "d", "e", "f", "g", "h", "i", "j", "k", "l", "m",
               "n", "o", "p", "q", "r", "s", "t", "u", "v", "w", "x", "y", "z">>

\* str.lower()
lower(s) ==
    [i \in 1..Len(s) |->
        IF \E k \in 1..Len(UpperCase) : UpperCase[k] = s[i]
        THEN LowerCase[CHOOSE k \in 1..Len(UpperCase) : UpperCase[k] = s[i]]
        ELSE s[i]]

\* x * 0.3048
TimesFeetFactor(x) == IF x.nan THEN NaN ELSE F(TruncDiv(x.v * FT_NUM, FT_DEN))

\* x / 0.3048
OverFeetFactor(x) == IF x.nan THEN NaN ELSE F(TruncDiv(x.v * FT_DEN, FT_NUM))

DepthToMetersDivides(depth_original, depth_unit) ==
    IF lower(depth_unit) = <<"f", "t">>
    THEN OverFeetFactor(depth_original)
    ELSE depth_original

DepthToMetersElseFeet(depth_original, depth_unit) ==
    IF lower(depth_unit) = <<"f", "t">>
    THEN TimesFeetFactor(depth_original)
    ELSE OverFeetFactor(depth_original)

\* the unit conversion of one Depth_original value into Depth_m
DepthToMeters(depth_original, depth_unit) ==
    IF lower(depth_unit) = <<"f", "t">>
    THEN TimesFeetFactor(depth_original)
    ELSE depth_original

\* unit strings a caller may pass as depth_unit
Units == {<<"f", "t">>, <<"F", "T">>, <<"F", "t">>, <<"m">>, <<"M">>,
          <<"f", "e", "e", "t">>, <<"c", "m">>, <<>>}

----------------------------------------------------------------------------
(* The observation table.  df.columns is a sequence of [name, numeric]
   (numeric: the column's dtype is a number type); each row maps every column
   name to its value.  A row's position in df.rows, counted from 0, is its
   pandas index label, which dropna keeps. *)

\* depth_col=None: no column name is this tuple, names are tuples of characters
None == <<"None">>

Lat == <<"L", "a", "t">>
Lon == <<"L", "o", "n">>
Site == <<"S", "i", "t", "e">>

ColumnNames(t) == [i \in 1..Len(t.columns) |-> t.columns[i].name]

HasColumn(t, c) == \E i \in 1..Len(t.columns) : t.columns[i].name = c

IsNumericColumn(t, c) ==
    \E i \in 1..Len(t.columns) : t.columns[i].name = c /\ t.columns[i].numeric

\* '-' in str(c) and len(str(c)) == 10
IsDateLike(c) == (\E i \in 1..Len(c) : c[i] = "-") /\ Len(c) = 10

Last(s) == s[Len(s)]

\* date_cols[-1]
PickDateCol(date_cols) == Last(date_cols)

PickCandidateLast(candidates) ==
    IF candidates = <<>> THEN [raised |-> "IndexError", col |-> None]
    ELSE [raised |-> "none", col |-> Last(candidates)]

PickCandidateOrLat(candidates) ==
    IF candidates = <<>> THEN [raised |-> "none", col |-> Lat]
    ELSE [raised |-> "none", col |-> candidates[1]]

\* [...][0]: the first element, or IndexError on an empty list
PickCandidate(candidates) ==
    IF candidates = <<>> THEN [raised |-> "IndexError", col |-> None]
    ELSE [raised |-> "none", col |-> candidates[1]]

\* The auto-detection of the depth column: the column chosen, or the
\* IndexError of [...][0] on an empty list.
InferDepthCol(t, lat_col, lon_col) ==
    LET date_cols == SelectSeq(ColumnNames(t), IsDateLike)
        numeric_cols == SelectSeq(ColumnNames(t), LAMBDA c : IsNumericColumn(t, c))
        exclude == {lat_col, lon_col, Site}
        candidates == SelectSeq(numeric_cols, LAMBDA c : c \notin exclude)
    IN IF date_cols # <<>>
       THEN [raised |-> "none", col |-> PickDateCol(date_cols)]
       ELSE PickCandidate(candidates)

\* the selection with the rows taken last to first
SelectColumnsDescending(t, lat_col, lon_col, depth_col) ==
    [i \in 1..Len(t.rows) |->
        [idx |-> Len(t.rows) - i,
         Lat |-> t.rows[Len(t.rows) + 1 - i][lat_col],
         Lon |-> t.rows[Len(t.rows) + 1 - i][lon_col],
         Depth_original |-> t.rows[Len(t.rows) + 1 - i][depth_col]]]

\* df[[lat_col, lon_col, depth_col]].copy() with the columns renamed
SelectColumns(t, lat_col, lon_col, depth_col) ==
    [i \in 1..Len(t.rows) |->
        [idx |-> i - 1,
         Lat |-> t.rows[i][lat_col],
         Lon |-> t.rows[i][lon_col],
         Depth_original |-> t.rows[i][depth_col]]]

dropnaKeepsAll(frame, columns) == frame

\* DataFrame.dropna(): keeps, in order, the rows with no NaN in any column
dropna(frame, columns) ==
    SelectSeq(frame, LAMBDA r : \A c \in columns : ~IsNaN(r[c]))

\* the Depth_m, DEM_m and Potential_m columns added to every row
AddDepthM(frame, depth_unit) ==
    [i \in 1..Len(frame) |->
        frame[i] @@ [Depth_m |-> DepthToMeters(frame[i].Depth_original, depth_unit)]]

AddDemMFirstRow(frame, d, b) ==
    [i \in 1..Len(frame) |->
        frame[i] @@ [DEM_m |-> get_dem_value(frame[1].Lat, frame[1].Lon, d, b).out]]

AddDemM(frame, d, b) ==
    [i \in 1..Len(frame) |->
        frame[i] @@ [DEM_m |-> get_dem_value(frame[i].Lat, frame[i].Lon, d, b).out]]

AddPotentialSum(frame) ==
    [i \in 1..Len(frame) |->
        frame[i] @@ [Potential_m |->
            IF frame[i].DEM_m.nan \/ frame[i].Depth_m.nan THEN NaN
            ELSE F(frame[i].DEM_m.v + frame[i].Depth_m.v)]]

AddPotential(frame) ==
    [i \in 1..Len(frame) |->
        frame[i] @@ [Potential_m |-> FSub(frame[i].DEM_m, frame[i].Depth_m)]]

\* result_df[['Lat', 'Lon', 'Depth_m', 'DEM_m', 'Potential_m']]
FinalColumns(frame) ==
    [i \in 1..Len(frame) |->
        [idx |-> frame[i].idx, Lat |-> frame[i].Lat, Lon |-> frame[i].Lon,
         Depth_m |-> frame[i].Depth_m, DEM_m |-> frame[i].DEM_m,
         Potential_m |-> frame[i].Potential_m]]

\* The {"error": ...} response of the except clause.  depth_column and
\* fetch_called record how far the call came; an error response carries no
\* records and no total_points (held as <<>> and -1).
\* the values of a column, NaN skipped as the pandas reductions skip it
SeriesValues(frame, c) ==
    SelectSeq([i \in 1..Len(frame) |-> frame[i][c]], LAMBDA x : ~IsNaN(x))

RECURSIVE SeriesSum(_)
SeriesSum(s) == IF s = <<>> THEN 0 ELSE s[1].v + SeriesSum(Tail(s))

\* the nearest integer to p / q (q > 0), a tie going to the even one
RoundHalfEven(p, q) ==
    LET f == p \div q
        r == p - f * q
    IN IF 2 * r < q THEN f
       ELSE IF 2 * r > q THEN f + 1
       ELSE IF f % 2 = 0 THEN f ELSE f + 1

\* round(x, 2) of the length x = p / q (in units of 1 / FT_DEN), in hundredths
Round2(p, q) == F(RoundHalfEven(100 * p, FT_DEN * q))

\* Series.min(), .max() and .mean(), each passed through round(., 2);
\* nan on an empty series, which round() leaves nan
SeriesMin(s) ==
    IF s = <<>> THEN NaN
    ELSE Round2(s[CHOOSE i \in 1..Len(s) : \A j \in 1..Len(s) : s[i].v <= s[j].v].v, 1)

SeriesMax(s) ==
    IF s = <<>> THEN NaN
    ELSE Round2(s[CHOOSE i \in 1..Len(s) : \A j \in 1..Len(s) : s[i].v >= s[j].v].v, 1)

SeriesMeanMidrange(s) ==
    IF s = <<>> THEN NaN
    ELSE Round2(s[CHOOSE i \in 1..Len(s) : \A j \in 1..Len(s) : s[i].v <= s[j].v].v
                + s[CHOOSE i \in 1..Len(s) : \A j \in 1..Len(s) : s[i].v >= s[j].v].v, 2)

SeriesMean(s) ==
    IF s = <<>> THEN NaN
    ELSE Round2(SeriesSum(s), Len(s))

\* json.dumps of a float: the token NaN for nan, the number otherwise
\* (None would be written null)
JsonFloat(x) ==
    IF x.nan THEN [token |-> "NaN", hundredths |-> 0]
    ELSE [token |-> "number", hundredths |-> x.v]

Describe(s) ==
    [min |-> JsonFloat(SeriesMin(s)), max |-> JsonFloat(SeriesMax(s)),
     mean |-> JsonFloat(SeriesMean(s))]

\* the "statistics" object of the response
Statistics(frame) ==
    [depth_m |-> Describe(SeriesValues(frame, "Depth_m")),
     dem_m |-> Describe(SeriesValues(frame, "DEM_m")),
     potential_m |-> Describe(SeriesValues(frame, "Potential_m"))]

\* the error response has no "statistics" key
NoStatistics == [token |-> "absent"]

Failure(fn, depth_col, fetch_called, error) ==
    [op |-> fn, status |-> "error", error |-> error, depth_column |-> depth_col,
     fetch_called |-> fetch_called, records |-> <<>>, total_points |-> -1,
     statistics |-> NoStatistics,
     written |-> FALSE]

\* From the table to the response, for both entry points; keep_original is
\* TRUE for calculate_potential, which skips the final column selection.
Pipeline(fn, keep_original, t, depth_col_arg, depth_unit, lat_col, lon_col, output_csv, d, b, status) ==
    LET inferred == IF depth_col_arg = None
                    THEN InferDepthCol(t, lat_col, lon_col)
                    ELSE [raised |-> "none", col |-> depth_col_arg]
        depth_col == inferred.col
    IN IF inferred.raised # "none"
       THEN Failure(fn, depth_col, FALSE, inferred.raised)
       ELSE IF status # 200
       THEN Failure(fn, depth_col, TRUE, "Exception")
       ELSE IF \E c \in {lat_col, lon_col, depth_col} : ~HasColumn(t, c)
       THEN Failure(fn, depth_col, TRUE, "KeyError")
       ELSE LET selected == dropna(SelectColumns(t, lat_col, lon_col, depth_col),
                                   {"Lat", "Lon", "Depth_original"})
            IN IF selected # <<>> /\ ~IsNumericColumn(t, depth_col)
               THEN Failure(fn, depth_col, TRUE, "TypeError")
               ELSE LET with_potential ==
                            AddPotential(AddDemM(AddDepthM(selected, depth_unit), d, b))
                        valid == dropna(with_potential,
                                        {"Lat", "Lon", "Depth_original", "Depth_m",
                                         "DEM_m", "Potential_m"})
                        result_df == IF keep_original THEN valid
                                     ELSE FinalColumns(valid)
                    IN [op |-> fn, status |-> "ok", error |-> "none",
                        depth_column |-> depth_col, fetch_called |-> TRUE,
                        records |-> result_df,
                        total_points |-> Len(result_df),
                        statistics |-> Statistics(result_df),
                        written |-> output_csv]

calculate_potential(t, depth_col, depth_unit, lat_col, lon_col, output_csv, d, b, status) ==
    Pipeline("calculate_potential", TRUE, t, depth_col, depth_unit, lat_col,
             lon_col, output_csv, d, b, status)

create_potential_dataset(t, depth_col, depth_unit, lat_col, lon_col, output_csv, d, b, status) ==
    Pipeline("create_potential_dataset", FALSE, t, depth_col, depth_unit,
             lat_col, lon_col, output_csv, d, b, status)

----------------------------------------------------------------------------
(* calculate_percentile_class *)

\* a JSON value the classifier reads: None (null) or a number
PyNone == [null |-> TRUE, v |-> 0]

Num(n) == [null |-> FALSE, v |-> n]

\* str() of a natural number, as the f-strings format the ranks
RECURSIVE Str(_)
Str(n) ==
    LET digit == <<"0", "1", "2", "3", "4", "5", "6", "7", "8", "9">>[(n % 10) + 1]
    IN IF n < 10 THEN <<digit>> ELSE Str(n \div 10) \o <<digit>>

\* the rank and the pct_data key of each boundary, in the order of the list
PercentileRanks == <<0, 10, 25, 50, 75, 90, 100>>

PercentileKeys ==
    <<"pct_lowest", "pct_10", "pct_25", "pct_50", "pct_75", "pct_90", "pct_highest">>

\* boundaries: the (percentile, value) pairs, value None where absent
Boundaries(pct) ==
    [i \in 1..Len(PercentileRanks) |-> [p |-> PercentileRanks[i], v |-> pct[PercentileKeys[i]]]]

\* valid = [(p, v) for p, v in boundaries if v is not None]
ValidBoundaries(pct) == SelectSeq(Boundaries(pct), LAMBDA a : ~a.v.null)

TooFewAtMostOne(valid) == Len(valid) < 1

\* len(valid) < 2
TooFew(valid) == Len(valid) < 2

BetweenStrict(depth, v1, v2) == v2.v < depth.v /\ depth.v < v1.v

\* v2 <= depth <= v1
Between(depth, v1, v2) == v2.v <= depth.v /\ depth.v <= v1.v

LastMatch(depth, valid) ==
    LET hits == {i \in 1..(Len(valid) - 1) : Between(depth, valid[i].v, valid[i + 1].v)}
    IN IF hits = {} THEN 0 ELSE CHOOSE i \in hits : \A j \in hits : j <= i

FirstBracketOnly(depth, valid) ==
    IF Len(valid) >= 2 /\ Between(depth, valid[1].v, valid[2].v) THEN 1 ELSE 0

\* the first i at which the loop returns, 0 if it runs to its end
FirstMatch(depth, valid) ==
    LET hits == {i \in 1..(Len(valid) - 1) : Between(depth, valid[i].v, valid[i + 1].v)}
    IN IF hits = {} THEN 0 ELSE CHOOSE i \in hits : \A j \in hits : i <= j

InRangeSum(p1, p2) ==
    [label |-> Str(p1) \o <<"-">> \o Str(p2), rank |-> Num(p1 + p2)]

\* f"{p1}-{p2}", (p1 + p2) // 2
InRange(p1, p2) ==
    [label |-> Str(p1) \o <<"-">> \o Str(p2), rank |-> Num((p1 + p2) \div 2)]

BelowFirstZero(valid) == [label |-> <<"<", "0">>, rank |-> Num(0)]

\* f"<{valid[0][0]}", 0
BelowFirst(valid) == [label |-> <<"<">> \o Str(valid[1].p), rank |-> Num(0)]

AboveLastRankZero(valid) == [label |-> <<">">> \o Str(Last(valid).p), rank |-> Num(0)]

AboveLastHundred(valid) == [label |-> <<">", "1", "0", "0">>, rank |-> Num(100)]

\* f">{valid[-1][0]}", 100
AboveLast(valid) == [label |-> <<">">> \o Str(Last(valid).p), rank |-> Num(100)]

\* return None, None
NoClass == [label |-> None, rank |-> PyNone]

calculate_percentile_class(depth, pct) ==
    LET valid == ValidBoundaries(pct)
        i == FirstMatch(depth, valid)
    IN IF depth.null THEN NoClass
       ELSE IF TooFew(valid) THEN NoClass
       ELSE IF i # 0 THEN InRange(valid[i].p, valid[i + 1].p)
       ELSE IF depth.v > valid[1].v.v THEN BelowFirst(valid)
       ELSE IF depth.v < Last(valid).v.v THEN AboveLast(valid)
       ELSE NoClass

----------------------------------------------------------------------------
(* fetch_cadwr_data *)

\* the time series are fetched for the first 50 points
TimeSeriesSites == 50

\* pct_wells.get(site_code, {}) when the site has no percentile data: the
\* empty dict, whose .get() answers with the defaults
NoPctInfo ==
    [empty |-> TRUE, site_code |-> "", percentile_class |-> <<>>,
     pct |-> [k \in {PercentileKeys[i] : i \in 1..Len(PercentileKeys)} |-> PyNone]]

\* {w['site_code']: w for w in wells}.get(site_code, {}): the last entry of the site
PctInfo(site_code, pcts) ==
    LET hits == {i \in 1..Len(pcts) : pcts[i].site_code = site_code}
    IN IF hits = {} THEN NoPctInfo
       ELSE pcts[CHOOSE i \in hits : \A j \in hits : j <= i]

\* not site_code or lat is None or lon is None
Skipped(well) == well.site_code = "" \/ well.lat.null \/ well.lon.null

ShouldRecalculateTruthy(pct_info, depth_ft) ==
    ~pct_info.empty /\ ~depth_ft.null /\ depth_ft.v # 0

\* pct_info and point_info['depth_ft'] is not None
ShouldRecalculate(pct_info, depth_ft) == ~pct_info.empty /\ ~depth_ft.null

\* the truth value of a label: None and the empty string are false
Truthy(label) == label # None /\ label # <<>>

\* the point_info of a well that is not skipped
PointInfo(well, pcts) ==
    LET pct_info == PctInfo(well.site_code, pcts)
        point_info == [site_no |-> well.site_code, lat |-> well.lat, lon |-> well.lon,
                       depth_ft |-> well.depth_ft, change |-> 0,
                       percentile_class |-> pct_info.percentile_class]
        calc_class == calculate_percentile_class(well.depth_ft, pct_info.pct).label
    IN IF ShouldRecalculate(pct_info, well.depth_ft) /\ Truthy(calc_class)
       THEN [point_info EXCEPT !.percentile_class = calc_class]
       ELSE point_info

\* the wells kept, in the order of the service's answer
KeptWells(ws) == SelectSeq(ws, LAMBDA well : ~Skipped(well))

\* The whole call.  status is what the current-levels service answered with;
\* dated says whether start_date and end_date were both given, and changes
\* is the change that the measurement history of each site then yields
\* (0 when it has fewer than two usable measurements or cannot be fetched).
fetch_cadwr_data(ws, pcts, status, dated, changes) ==
    LET kept == KeptWells(ws)
        points == [i \in 1..Len(kept) |-> PointInfo(kept[i], pcts)]
        fetch_count == IF TimeSeriesSites < Len(points) THEN TimeSeriesSites ELSE Len(points)
    IN IF status # 200 THEN <<>>
       ELSE IF ~dated THEN points
       ELSE [i \in 1..Len(points) |->
                IF i <= fetch_count
                THEN [points[i] EXCEPT !.change = changes[points[i].site_no]]
                ELSE points[i]]

----------------------------------------------------------------------------
(* get_measurement_history of src/cadwr_gwinfo.py *)

\* the characters of a timestamp, in code-point order
CodePoints == <<"-", "0", "1", "2", "3", "4", "5", "6", "7", "8", "9", ":", "T">>

CodePoint(ch) == CHOOSE k \in 1..Len(CodePoints) : CodePoints[k] = ch

\* a < b on Python strings
StrLt(a, b) ==
    \E i \in 1..Len(b) :
        /\ i <= Len(a) + 1
        /\ \A j \in 1..(i - 1) : a[j] = b[j]
        /\ i = Len(a) + 1 \/ CodePoint(a[i]) < CodePoint(b[i])

\* s[:10]
Take10(s) == SubSeq(s, 1, IF Len(s) < 10 THEN Len(s) ELSE 10)

\* `if start_date and ...`: None and the empty string are not given
Given(date) == date # None /\ date # <<>>

\* start_date and msmt_date < start_date
TooEarly(msmt_date, start_date) == Given(start_date) /\ StrLt(msmt_date, start_date)

\* end_date and msmt_date > end_date
TooLate(msmt_date, end_date) == Given(end_date) /\ StrLt(end_date, msmt_date)

\* the measurement appended for a record
Measurement(r) == [date |-> Take10(r.msmt_date), depth_ft |-> r.gse_gwe]

\* the loop over the records: the measurements kept, in the records' order
Filtered(rs, start_date, end_date) ==
    LET kept == SelectSeq(rs, LAMBDA r : /\ ~TooEarly(Take10(r.msmt_date), start_date)
                                         /\ ~TooLate(Take10(r.msmt_date), end_date))
    IN [i \in 1..Len(kept) |-> Measurement(kept[i])]

\* one step of the sort: m goes behind the measurements not dated after it
InsertByDate(m, sorted) ==
    LET k == Cardinality({i \in 1..Len(sorted) : ~StrLt(m.date, sorted[i].date)})
    IN SubSeq(sorted, 1, k) \o <<m>> \o SubSeq(sorted, k + 1, Len(sorted))

SortByDateSkipped(ms) == ms

\* measurements.sort(key=lambda x: x['date']): ascending and stable
RECURSIVE SortByDate(_)
SortByDate(ms) ==
    IF ms = <<>> THEN <<>>
    ELSE InsertByDate(ms[Len(ms)], SortByDate(SubSeq(ms, 1, Len(ms) - 1)))

HistoryError(start_date, end_date, error) ==
    [op |-> "get_measurement_history", status |-> "error", error |-> error,
     start_date |-> start_date, end_date |-> end_date, count |-> -1, measurements |-> <<>>]

\* The whole call: status and data are what the measurement service answered
\* with.  A record whose msmt_date is null makes the slice raise TypeError.
get_measurement_history(status, data, start_date, end_date) ==
    IF status # 200 THEN HistoryError(start_date, end_date, "API error")
    ELSE IF ~data.success THEN HistoryError(start_date, end_date, "Unknown error")
    ELSE IF \E i \in 1..Len(data.records) : data.records[i].msmt_date = None
    THEN HistoryError(start_date, end_date, "TypeError")
    ELSE LET measurements == SortByDate(Filtered(data.records, start_date, end_date))
         IN [op |-> "get_measurement_history", status |-> "ok", error |-> "none",
             start_date |-> start_date, end_date |-> end_date,
             count |-> Len(measurements), measurements |-> measurements]

----------------------------------------------------------------------------
(* Rasters the model draws: every cell holds its own elevation, and at most
   one cell holds the no-data value. *)

Elevation(r, c) == F((100 * (r + 1) + 10 * c) * FT_DEN)

Grid(nr, nc, hole) ==
    [shape |-> <<nr, nc>>,
     data |-> [r \in 0..(nr - 1) |-> [c \in 0..(nc - 1) |->
                  IF <<r, c>> = hole THEN NaN ELSE Elevation(r, c)]]]

Grids(rows, cols) ==
    UNION {{Grid(nr, nc, hole) :
              hole \in {<<-1, -1>>} \cup ((0..(nr - 1)) \X (0..(nc - 1)))} :
           <<nr, nc>> \in rows \X cols}

Extents ==
    {[west |-> w, south |-> s, east |-> w + dx, north |-> s + dy] :
        <<w, s, dx, dy>> \in {-2, 0} \X {-1} \X (1..MaxExtent) \X (1..MaxExtent)}

NoCall == [op |-> "none"]
NoConv == [op |-> "none"]
NoResult == [op |-> "none"]
NoClassified == [op |-> "none"]
NoPoints == [op |-> "none"]
NoHistory == [op |-> "none"]
NoPercentiles == [k \in {PercentileKeys[i] : i \in 1..Len(PercentileKeys)} |-> PyNone]
NoTable == [columns |-> <<>>, rows |-> <<>>]

\* no service has answered and nothing has been fetched
IdleCadwr ==
    /\ wells = <<>>
    /\ pct_wells = <<>>
    /\ points_data = NoPoints
    /\ records = <<>>
    /\ history = NoHistory

\* coordinates a caller may pass: inside, on and outside the extent, and NaN
Coords(lo, hi) == {NaN} \cup {F(x) : x \in (lo - 1)..(hi + 1)}

----------------------------------------------------------------------------
(* Sampling specification: a raster and any number of point queries *)

InitSample ==
    /\ dem \in Grids(1..MaxGridRows, 1..MaxGridCols)
    /\ bounds \in Extents
    /\ http_status = 200
    /\ df = NoTable
    /\ call = NoCall
    /\ conv = NoConv
    /\ result = NoResult
    /\ pct_data = NoPercentiles
    /\ classified = NoClassified
    /\ IdleCadwr

GetDemValueCall(lat, lon) ==
    /\ call' = [op |-> "get_dem_value", lat |-> lat, lon |-> lon]
                  @@ get_dem_value(lat, lon, dem, bounds)
    /\ UNCHANGED <<dem, bounds, http_status, df, conv, result, pct_data, classified, cadwr>>

NextSample ==
    \E lat \in Coords(bounds.south, bounds.north),
       lon \in Coords(bounds.west, bounds.east) : GetDemValueCall(lat, lon)

SpecSample == InitSample /\ [][NextSample]_vars

----------------------------------------------------------------------------
(* Elevation specification: the same rasters and points, queried through the
   closure of get_dem_at_points *)

InitElevation ==
    /\ dem \in Grids(1..MaxGridRows, 1..MaxGridCols)
    /\ bounds \in Extents
    /\ http_status = 200
    /\ df = NoTable
    /\ call = NoCall
    /\ conv = NoConv
    /\ result = NoResult
    /\ pct_data = NoPercentiles
    /\ classified = NoClassified
    /\ IdleCadwr

GetValueCall(lat, lon) ==
    /\ call' = [op |-> "get_value", lat |-> lat, lon |-> lon]
                  @@ get_value(lat, lon, dem, bounds)
    /\ UNCHANGED <<dem, bounds, http_status, df, conv, result, pct_data, classified, cadwr>>

NextElevation ==
    \E lat \in Coords(bounds.south, bounds.north),
       lon \in Coords(bounds.west, bounds.east) : GetValueCall(lat, lon)

SpecElevation == InitElevation /\ [][NextElevation]_vars

----------------------------------------------------------------------------
(* Conversion specification: the unit conversion applied to depth readings,
   and applied again to a value it produced *)

\* whole-unit readings, among them 100
Readings == {F(n * FT_DEN) : n \in ((-2)..MaxDepth) \cup {100}}

InitUnits ==
    /\ dem = Grid(1, 1, <<-1, -1>>)
    /\ bounds = [west |-> 0, south |-> 0, east |-> 1, north |-> 1]
    /\ http_status = 200
    /\ df = NoTable
    /\ call = NoCall
    /\ conv = NoConv
    /\ result = NoResult
    /\ pct_data = NoPercentiles
    /\ classified = NoClassified
    /\ IdleCadwr

ConvertDepth(x, unit) ==
    /\ conv' = [op |-> "convert", x |-> x, unit |-> unit,
                out |-> DepthToMeters(x, unit), raised |-> "none",
                again |-> FALSE, first_x |-> x, first_unit |-> unit]
    /\ UNCHANGED <<dem, bounds, http_status, df, call, result, pct_data, classified, cadwr>>

ConvertAgain(unit) ==
    /\ conv.op = "convert"
    /\ ~conv.again
    /\ conv' = [op |-> "convert", x |-> conv.out, unit |-> unit,
                out |-> DepthToMeters(conv.out, unit), raised |-> "none",
                again |-> TRUE, first_x |-> conv.x, first_unit |-> conv.unit]
    /\ UNCHANGED <<dem, bounds, http_status, df, call, result, pct_data, classified, cadwr>>

NextUnits ==
    \/ \E x \in Readings, unit \in Units : ConvertDepth(x, unit)
    \/ \E unit \in Units : ConvertAgain(unit)

SpecUnits == InitUnits /\ [][NextUnits]_vars

----------------------------------------------------------------------------
(* Dataset specification: a fetched raster, a table with the columns Lat,
   Lon and WaterLevel, and any number of dataset computations on it *)

WaterLevel == <<"W", "a", "t", "e", "r", "L", "e", "v", "e", "l">>

DatasetExtent == [west |-> 0, south |-> 0, east |-> MaxExtent, north |-> MaxExtent]

TableRow(lat, lon, depth) ==
    (Lat :> lat) @@ (Lon :> lon) @@ (WaterLevel :> depth)

\* rows of every kind the pipeline tells apart: two covered points, each of
\* the three values missing, and two points outside the raster
RowKinds ==
    LET e == DatasetExtent
    IN {TableRow(F(e.north), F(e.west), F(30 * FT_DEN)),
        TableRow(F(e.south), F(e.east), F(100 * FT_DEN)),
        TableRow(NaN, F(e.west), F(30 * FT_DEN)),
        TableRow(F(e.north), NaN, F(30 * FT_DEN)),
        TableRow(F(e.north), F(e.west), NaN),
        TableRow(F(e.north + 1), F(e.west), F(30 * FT_DEN)),
        TableRow(F(e.south), F(e.west - 1), F(100 * FT_DEN))}

SeqsUpTo(S, n) == UNION {[1..k -> S] : k \in 0..n}

DatasetColumns ==
    <<[name |-> Lat, numeric |-> TRUE], [name |-> Lon, numeric |-> TRUE],
      [name |-> WaterLevel, numeric |-> TRUE]>>

InitDataset ==
    /\ dem \in {Grid(MaxGridRows, MaxGridCols, hole) : hole \in {<<-1, -1>>, <<0, 0>>}}
    /\ bounds = DatasetExtent
    /\ http_status = 200
    /\ df \in {[columns |-> DatasetColumns, rows |-> rows] :
                 rows \in SeqsUpTo(RowKinds, MaxTableRows)}
    /\ call = NoCall
    /\ conv = NoConv
    /\ result = NoResult
    /\ pct_data = NoPercentiles
    /\ classified = NoClassified
    /\ IdleCadwr

\* what the caller passed, kept beside the response
Request(depth_col, depth_unit) == [depth_col |-> depth_col, depth_unit |-> depth_unit]

CalculatePotential(depth_col, depth_unit, output_csv) ==
    /\ result' = Request(depth_col, depth_unit)
                    @@ calculate_potential(df, depth_col, depth_unit, Lat, Lon,
                                           output_csv, dem, bounds, http_status)
    /\ UNCHANGED <<dem, bounds, http_status, df, call, conv, pct_data, classified, cadwr>>

CreatePotentialDataset(depth_col, depth_unit, output_csv) ==
    /\ result' = Request(depth_col, depth_unit)
                    @@ create_potential_dataset(df, depth_col, depth_unit, Lat, Lon,
                                                output_csv, dem, bounds, http_status)
    /\ UNCHANGED <<dem, bounds, http_status, df, call, conv, pct_data, classified, cadwr>>

DatasetUnits == {<<"f", "t">>, <<"m">>}

NextDataset ==
    \/ \E depth_col \in {None, WaterLevel}, depth_unit \in DatasetUnits :
          CalculatePotential(depth_col, depth_unit, TRUE)
    \/ \E depth_col \in {None, WaterLevel}, depth_unit \in DatasetUnits :
          CreatePotentialDataset(depth_col, depth_unit, TRUE)

SpecDataset == InitDataset /\ [][NextDataset]_vars

----------------------------------------------------------------------------
(* Inference specification: tables of every column layout over a pool of
   names, one covered observation in each, and any number of dataset
   computations with or without a depth column named by the caller *)

Date1 == <<"2", "0", "2", "3", "-", "0", "1", "-", "1", "5">>
Date2 == <<"2", "0", "2", "3", "-", "0", "6", "-", "2", "0">>
WellDepth == <<"W", "e", "l", "l", "-", "D", "e", "p", "t", "h">>

Depth == <<"D", "e", "p", "t", "h">>
Name == <<"N", "a", "m", "e">>

\* the pool, in no particular order; Name holds text, the others numbers
\* (Site a numeric site identifier)
ColumnPool == <<Lat, Lon, Site, Name, Date1, Date2, WaterLevel, WellDepth, Depth>>

PoolColumn(k) == [name |-> ColumnPool[k], numeric |-> ColumnPool[k] # Name]

\* the one row: a covered point, and k feet (or metres) in the pool's k-th column
PoolValue(k) ==
    IF ColumnPool[k] = Lat THEN F(DatasetExtent.north)
    ELSE IF ColumnPool[k] = Lon THEN F(DatasetExtent.west)
    ELSE F(k * FT_DEN)

\* every order of up to MaxTableCols distinct columns, Lat and Lon among them
Layouts ==
    {ks \in SeqsUpTo(1..Len(ColumnPool), MaxTableCols) :
        /\ \A i, j \in 1..Len(ks) : i # j => ks[i] # ks[j]
        /\ \E i \in 1..Len(ks) : ColumnPool[ks[i]] = Lat
        /\ \E i \in 1..Len(ks) : ColumnPool[ks[i]] = Lon}

LayoutTable(ks) ==
    [columns |-> [i \in 1..Len(ks) |-> PoolColumn(ks[i])],
     rows |-> << [c \in {ColumnPool[ks[i]] : i \in 1..Len(ks)} |->
                    PoolValue(CHOOSE k \in 1..Len(ColumnPool) : ColumnPool[k] = c)] >>]

InitInfer ==
    /\ dem = Grid(MaxGridRows, MaxGridCols, <<-1, -1>>)
    /\ bounds = DatasetExtent
    /\ http_status \in {200, 500}
    /\ df \in {LayoutTable(ks) : ks \in Layouts}
    /\ call = NoCall
    /\ conv = NoConv
    /\ result = NoResult
    /\ pct_data = NoPercentiles
    /\ classified = NoClassified
    /\ IdleCadwr

\* feet, and a unit string that is neither feet nor metres
InferUnits == {<<"f", "t">>, <<"c", "m">>}

NextInfer ==
    \/ \E depth_col \in {None, WaterLevel, Name}, depth_unit \in InferUnits :
          CalculatePotential(depth_col, depth_unit, TRUE)
    \/ \E depth_col \in {None, WaterLevel, Name}, depth_unit \in InferUnits :
          CreatePotentialDataset(depth_col, depth_unit, TRUE)

SpecInfer == InitInfer /\ [][NextInfer]_vars

----------------------------------------------------------------------------
(* Classification specification: a site's percentile record and any number
   of classifications of a depth against it *)

\* the record of the worked example: 40, 25, 18, 12, 8, 5 and 2 feet
ExamplePercentiles ==
    [k \in DOMAIN NoPercentiles |->
        Num(CASE k = "pct_lowest" -> 40 [] k = "pct_10" -> 25 [] k = "pct_25" -> 18
              [] k = "pct_50" -> 12 [] k = "pct_75" -> 8 [] k = "pct_90" -> 5
              [] k = "pct_highest" -> 2)]

\* every record with at most MaxAnchors boundaries present, in any order of
\* value, and the example
PercentileRecords ==
    {pct \in [DOMAIN NoPercentiles -> {PyNone} \cup {Num(v) : v \in 0..MaxAnchorValue}] :
        Cardinality({k \in DOMAIN pct : ~pct[k].null}) <= MaxAnchors}
    \cup {ExamplePercentiles}

\* no depth, the depths around the drawn boundary values, and two of the example
ClassifiedDepths ==
    {PyNone} \cup {Num(v) : v \in (-1)..(MaxAnchorValue + 1)} \cup {Num(15), Num(18)}

InitClassify ==
    /\ dem = Grid(1, 1, <<-1, -1>>)
    /\ bounds = [west |-> 0, south |-> 0, east |-> 1, north |-> 1]
    /\ http_status = 200
    /\ df = NoTable
    /\ call = NoCall
    /\ conv = NoConv
    /\ result = NoResult
    /\ pct_data \in PercentileRecords
    /\ classified = NoClassified
    /\ IdleCadwr

CalculatePercentileClassPopping(depth) ==
    /\ classified' = [op |-> "calculate_percentile_class", depth |-> depth]
                        @@ calculate_percentile_class(depth, pct_data)
    /\ pct_data' = [pct_data EXCEPT !["pct_lowest"] = PyNone]
    /\ UNCHANGED <<dem, bounds, http_status, df, call, conv, result, cadwr>>

CalculatePercentileClass(depth) ==
    /\ classified' = [op |-> "calculate_percentile_class", depth |-> depth]
                        @@ calculate_percentile_class(depth, pct_data)
    /\ UNCHANGED <<dem, bounds, http_status, df, call, conv, result, pct_data, cadwr>>

NextClassify == \E depth \in ClassifiedDepths : CalculatePercentileClass(depth)

SpecClassify == InitClassify /\ [][NextClassify]_vars

----------------------------------------------------------------------------
(* Calls specification: one raster, one observation table and one percentile
   record, and samplings, classifications and dataset computations on them
   in any order *)

\* points on and off the raster, and a NaN coordinate
CallCoords(lo, hi) == {NaN, F(lo), F(hi), F(hi + 1)}

\* no depth, a depth inside the example boundary and one above it
CallDepths == {PyNone, Num(15), Num(41)}

InitCalls ==
    /\ dem \in {Grid(MaxGridRows, MaxGridCols, hole) : hole \in {<<-1, -1>>, <<0, 0>>}}
    /\ bounds = DatasetExtent
    /\ http_status = 200
    /\ df \in {[columns |-> DatasetColumns, rows |-> rows] : rows \in SeqsUpTo(RowKinds, 1)}
    /\ call = NoCall
    /\ conv = NoConv
    /\ result = NoResult
    /\ pct_data \in {NoPercentiles, ExamplePercentiles}
    /\ classified = NoClassified
    /\ IdleCadwr

NextCalls ==
    \/ \E lat \in CallCoords(bounds.south, bounds.north),
          lon \in CallCoords(bounds.west, bounds.east) : GetDemValueCall(lat, lon)
    \/ \E depth \in CallDepths : CalculatePercentileClass(depth)
    \/ CalculatePotential(None, <<"f", "t">>, TRUE)
    \/ CreatePotentialDataset(None, <<"f", "t">>, TRUE)

SpecCalls == InitCalls /\ [][NextCalls]_vars

----------------------------------------------------------------------------
(* Wells specification: what the two services answer with, and any number
   of fetches *)

SiteCodes == {"A", "B"}

Well(site_code, lat, lon, depth_ft) ==
    [site_code |-> site_code, lat |-> lat, lon |-> lon, depth_ft |-> depth_ft]

\* wells with and without a depth, at depth 0, without a site code and
\* without a latitude or a longitude
WellKinds ==
    {Well("A", Num(0), Num(1), Num(15)), Well("A", Num(0), Num(1), PyNone),
     Well("A", Num(1), Num(0), Num(0)), Well("B", Num(1), Num(1), Num(41)),
     Well("B", Num(1), Num(1), Num(18)), Well("", Num(1), Num(1), Num(15)),
     Well("A", PyNone, Num(1), Num(15)), Well("B", Num(1), PyNone, Num(15))}

\* percentile wells: with the example boundary or with no boundary value,
\* with a class of the service or with the empty string
PctKinds ==
    {[empty |-> FALSE, site_code |-> site_code, percentile_class |-> class, pct |-> pct] :
        site_code \in SiteCodes, class \in {<<>>, <<"N">>},
        pct \in {ExamplePercentiles, NoPercentiles}}

\* answers of the percentile service: up to one entry per site code, and two
\* entries of one site
PctLists == SeqsUpTo(PctKinds, Cardinality(SiteCodes))

\* the changes the histories of the sites yield
SiteChanges == {[site \in SiteCodes |-> 0], [site \in SiteCodes |-> IF site = "A" THEN -2 ELSE 3]}

InitWells ==
    /\ dem = Grid(1, 1, <<-1, -1>>)
    /\ bounds = [west |-> 0, south |-> 0, east |-> 1, north |-> 1]
    /\ http_status \in {200, 500}
    /\ df = NoTable
    /\ call = NoCall
    /\ conv = NoConv
    /\ result = NoResult
    /\ pct_data = NoPercentiles
    /\ classified = NoClassified
    /\ wells \in SeqsUpTo(WellKinds, MaxWells)
    /\ pct_wells \in PctLists
    /\ points_data = NoPoints
    /\ records = <<>>
    /\ history = NoHistory

FetchCadwrData(dated, changes) ==
    /\ points_data' = [op |-> "fetch_cadwr_data", dated |-> dated,
                       points |-> fetch_cadwr_data(wells, pct_wells, http_status, dated, changes)]
    /\ UNCHANGED <<dem, bounds, http_status, df, call, conv, result, pct_data, classified>>
    /\ UNCHANGED <<wells, pct_wells, records, history>>

NextWells ==
    \/ \E changes \in SiteChanges : FetchCadwrData(FALSE, changes)
    \/ \E changes \in SiteChanges : FetchCadwrData(TRUE, changes)

SpecWells == InitWells /\ [][NextWells]_vars

----------------------------------------------------------------------------
(* History specification: the records the measurement service holds for a
   site, in any order, and any number of queries with or without bounds *)

Date3 == <<"2", "0", "2", "4", "-", "0", "2", "-", "0", "1">>

\* a timestamp of the day Date2
Date2Morning == Date2 \o <<"T", "0", "8", ":", "0", "0", ":", "0", "0">>

\* records dated by day or by timestamp, with no date and with a null date
RecordKinds ==
    {[msmt_date |-> d, gse_gwe |-> Num(15)] : d \in {Date1, Date2, Date2Morning, Date3, <<>>, None}}

InitHistory ==
    /\ dem = Grid(1, 1, <<-1, -1>>)
    /\ bounds = [west |-> 0, south |-> 0, east |-> 1, north |-> 1]
    /\ http_status \in {200, 500}
    /\ df = NoTable
    /\ call = NoCall
    /\ conv = NoConv
    /\ result = NoResult
    /\ pct_data = NoPercentiles
    /\ classified = NoClassified
    /\ wells = <<>>
    /\ pct_wells = <<>>
    /\ points_data = NoPoints
    /\ records \in {[success |-> ok, records |-> rs] :
                      ok \in BOOLEAN, rs \in SeqsUpTo(RecordKinds, MaxRecords)}
    /\ history = NoHistory

GetMeasurementHistory(start_date, end_date) ==
    /\ history' = get_measurement_history(http_status, records, start_date, end_date)
    /\ UNCHANGED <<dem, bounds, http_status, df, call, conv, result, pct_data, classified>>
    /\ UNCHANGED <<wells, pct_wells, points_data, records>>

NextHistory ==
    \E start_date \in {None, <<>>, Date1, Date2}, end_date \in {None, Date2, Date3} :
        GetMeasurementHistory(start_date, end_date)

SpecHistory == InitHistory /\ [][NextHistory]_vars

----------------------------------------------------------------------------
(* Ranking specification: a record whose values do not increase with the
   rank, and classifications of one depth after another against it *)

RankedRecords ==
    {pct \in PercentileRecords :
        \A i \in 1..(Len(ValidBoundaries(pct)) - 1) :
            ValidBoundaries(pct)[i].v.v >= ValidBoundaries(pct)[i + 1].v.v}

RankedDepths == {Num(v) : v \in (-1)..(MaxAnchorValue + 1)}

InitRank ==
    /\ dem = Grid(1, 1, <<-1, -1>>)
    /\ bounds = [west |-> 0, south |-> 0, east |-> 1, north |-> 1]
    /\ http_status = 200
    /\ df = NoTable
    /\ call = NoCall
    /\ conv = NoConv
    /\ result = NoResult
    /\ pct_data \in RankedRecords
    /\ classified = NoClassified
    /\ IdleCadwr

\* a call that follows another: the earlier call's depth and rank estimate
\* are kept beside the response
ClassifyAfter(depth) ==
    /\ classified.op = "calculate_percentile_class"
    /\ classified' = [op |-> "calculate_percentile_class", depth |-> depth,
                      before |-> [depth |-> classified.depth, rank |-> classified.rank]]
                        @@ calculate_percentile_class(depth, pct_data)
    /\ UNCHANGED <<dem, bounds, http_status, df, call, conv, result, pct_data, cadwr>>

NextRank ==
    \/ \E depth \in RankedDepths : CalculatePercentileClass(depth)
    \/ \E depth \in RankedDepths : ClassifyAfter(depth)

SpecRank == InitRank /\ [][NextRank]_vars

----------------------------------------------------------------------------
(* Claims about get_dem_value *)

PointInside(lat, lon) ==
    /\ ~lat.nan /\ ~lon.nan
    /\ bounds.south <= lat.v /\ lat.v <= bounds.north
    /\ bounds.west <= lon.v /\ lon.v <= bounds.east

\* the spec's index formula: floor of the scaled offset, clamped into the axis
SpecCol(lon) ==
    LET c == ((lon.v - bounds.west) * dem.shape[2]) \div (bounds.east - bounds.west)
    IN IF c < 0 THEN 0 ELSE IF c > dem.shape[2] - 1 THEN dem.shape[2] - 1 ELSE c

SpecRow(lat) ==
    LET r == ((bounds.north - lat.v) * dem.shape[1]) \div (bounds.north - bounds.south)
    IN IF r < 0 THEN 0 ELSE IF r > dem.shape[1] - 1 THEN dem.shape[1] - 1 ELSE r

C1_AtFormulaCell ==
    (call.op = "get_dem_value" /\ PointInside(call.lat, call.lon)) =>
        /\ ~call.raised
        /\ call.indexed
        /\ call.row = SpecRow(call.lat)
        /\ call.col = SpecCol(call.lon)
        /\ call.out = dem.data[SpecRow(call.lat)][SpecCol(call.lon)]

C1_RepeatStep ==
    (/\ call.op = "get_dem_value" /\ call'.op = "get_dem_value"
     /\ call'.lat = call.lat /\ call'.lon = call.lon) => call'.out = call.out

\* C1: for a point inside the extent, get_dem_value returns exactly the cell
\* at row floor((north - lat) / (north - south) * rows) and column
\* floor((lon - west) / (east - west) * cols), each clamped into the axis; a
\* no-data cell comes back as NaN; and a repeated call returns the same value.
C1_SampleMatchesFormula == [](C1_AtFormulaCell) /\ [][C1_RepeatStep]_vars

\* an interior point that lands on the no-data cell (1, 1) of a 2 x 3 raster
C1_Witness ==
    /\ call.op = "get_dem_value"
    /\ PointInside(call.lat, call.lon)
    /\ bounds.south < call.lat.v /\ call.lat.v < bounds.north
    /\ bounds.west < call.lon.v /\ call.lon.v < bounds.east
    /\ call.row = 1 /\ call.col = 1
    /\ IsNaN(dem.data[1][1]) /\ IsNaN(call.out)

\* C2: for a point outside the extent in latitude or in longitude,
\* get_dem_value returns NaN, does not index the array and raises nothing.
C2_OutsideIsNaN ==
    (/\ call.op = "get_dem_value"
     /\ ~call.lat.nan /\ ~call.lon.nan
     /\ \/ call.lat.v < bounds.south \/ call.lat.v > bounds.north
        \/ call.lon.v < bounds.west \/ call.lon.v > bounds.east) =>
        /\ IsNaN(call.out)
        /\ ~call.indexed
        /\ ~call.raised

\* a point whose latitude is inside and whose longitude is just east of the extent
C2_Witness ==
    /\ call.op = "get_dem_value"
    /\ ~call.lat.nan /\ ~call.lon.nan
    /\ bounds.south <= call.lat.v /\ call.lat.v <= bounds.north
    /\ call.lon.v = bounds.east + 1
    /\ IsNaN(call.out) /\ ~call.indexed

\* C3: the north-west corner point returns grid[0][0], the south-east corner
\* point returns grid[rows - 1][cols - 1], and neither is out of bounds.
C3_Corners ==
    /\ (/\ call.op = "get_dem_value"
        /\ call.lat = F(bounds.north) /\ call.lon = F(bounds.west)) =>
           /\ call.indexed /\ ~call.raised
           /\ call.row = 0 /\ call.col = 0
           /\ call.out = dem.data[0][0]
    /\ (/\ call.op = "get_dem_value"
        /\ call.lat = F(bounds.south) /\ call.lon = F(bounds.east)) =>
           /\ call.indexed /\ ~call.raised
           /\ call.row = dem.shape[1] - 1 /\ call.col = dem.shape[2] - 1
           /\ call.out = dem.data[dem.shape[1] - 1][dem.shape[2] - 1]

\* the south-east corner of a raster with more than one row and column
C3_Witness ==
    /\ call.op = "get_dem_value"
    /\ call.lat = F(bounds.south) /\ call.lon = F(bounds.east)
    /\ dem.shape = <<MaxGridRows, MaxGridCols>>
    /\ call.row = MaxGridRows - 1 /\ call.col = MaxGridCols - 1
    /\ ~IsNaN(call.out)

\* C24: for an in-bounds point the row and col that index the grid lie in
\* 0..num_rows - 1 and 0..num_cols - 1, and the clamp changes the computed
\* index only when lon = east (col) or lat = south (row): at every other
\* in-bounds point the unclamped index is in range already.
C24_ClampOnlyAtEdge ==
    (call.op = "get_dem_value" /\ PointInside(call.lat, call.lon)) =>
        /\ call.row \in 0..(dem.shape[1] - 1)
        /\ call.col \in 0..(dem.shape[2] - 1)
        /\ call.col # call.raw_col => call.lon.v = bounds.east
        /\ call.row # call.raw_row => call.lat.v = bounds.south
        /\ call.lon.v # bounds.east => call.raw_col \in 0..(dem.shape[2] - 1)
        /\ call.lat.v # bounds.south => call.raw_row \in 0..(dem.shape[1] - 1)

\* a point on the east edge above the south edge: the col is clamped from
\* num_cols, the row is left as computed
C24_Witness ==
    /\ call.op = "get_dem_value" /\ PointInside(call.lat, call.lon)
    /\ call.lon.v = bounds.east /\ call.lat.v # bounds.south
    /\ call.raw_col = dem.shape[2] /\ call.col = dem.shape[2] - 1
    /\ call.row = call.raw_row /\ call.row > 0

\* C28: the two point samplers agree: on every grid, bounds and point the
\* closure get_value returns what get_dem_value returns, the value of the
\* same cell or NaN.
C28_SamplersAgree ==
    call.op = "get_value" =>
        LET other == get_dem_value(call.lat, call.lon, dem, bounds)
        IN /\ call.out = other.out
           /\ call.indexed = other.indexed /\ call.raised = other.raised
           /\ call.row = other.row /\ call.col = other.col

\* a point of the second row of a raster of two rows
C28_Witness ==
    /\ call.op = "get_value" /\ call.indexed
    /\ dem.shape[1] = 2 /\ call.row = 1
    /\ ~IsNaN(call.out)
    /\ call.out # dem.data[0][call.col]
    /\ call.out = get_dem_value(call.lat, call.lon, dem, bounds).out

----------------------------------------------------------------------------
(* Claims about the unit conversion *)

IsFeet(unit) == lower(unit) = <<"f", "t">>
IsMeters(unit) == lower(unit) = <<"m">>

\* C7: a reading in feet converts to value * 0.3048, a reading in metres is
\* returned unchanged, and 100 feet convert to 30.48 metres.
\* (The product is compared on the whole-unit readings, where the fixed-point
\* product is exact.)
C7_ToMeters ==
    (conv.op = "convert") =>
        /\ (IsFeet(conv.unit) /\ conv.x \in Readings) =>
               (~conv.out.nan /\ conv.out.v * FT_DEN = conv.x.v * FT_NUM)
        /\ IsMeters(conv.unit) => conv.out = conv.x
        /\ (IsFeet(conv.unit) /\ conv.x = F(100 * FT_DEN)) =>
               conv.out.v * 100 = 3048 * FT_DEN

\* 100 feet have been converted
C7_Witness ==
    /\ conv.op = "convert" /\ ~conv.again
    /\ conv.unit = <<"f", "t">> /\ conv.x = F(100 * FT_DEN)
    /\ conv.out = F(100 * FT_NUM)

\* C8: a unit that is neither feet nor metres makes the conversion fail with
\* InvalidUnitError naming the unit, and no converted depth is produced.
C8_InvalidUnitRaises ==
    (conv.op = "convert" /\ ~IsFeet(conv.unit) /\ ~IsMeters(conv.unit)) =>
        /\ conv.raised = "InvalidUnitError"
        /\ conv.out = NaN

\* C9: once in metres the conversion is idempotent:
\* to_meters(to_meters(x, feet), meters) = to_meters(x, feet).
C9_Idempotent ==
    (/\ conv.op = "convert" /\ conv.again
     /\ IsFeet(conv.first_unit) /\ IsMeters(conv.unit)) =>
        /\ conv.out = conv.x
        /\ conv.out.v * FT_DEN = conv.first_x.v * FT_NUM

\* 7 feet converted, and the result converted again as metres
C9_Witness ==
    /\ conv.op = "convert" /\ conv.again
    /\ conv.first_unit = <<"F", "T">> /\ conv.unit = <<"m">>
    /\ conv.first_x = F(7 * FT_DEN)
    /\ conv.out = F(7 * FT_NUM)

----------------------------------------------------------------------------
(* Claims about the dataset computation *)

Computed == result.op \in {"calculate_potential", "create_potential_dataset"}

\* the input row a record came from, by its index label
InputRow(r) == df.rows[r.idx + 1]

\* the depth column the caller named or, left to inference, WaterLevel
InputDepth(row) == row[WaterLevel]

\* the raster sample at a point, by the spec's formula
ExpectedSample(lat, lon) ==
    IF PointInside(lat, lon) THEN dem.data[SpecRow(lat)][SpecCol(lon)] ELSE NaN

\* C4: every record has potential_m = elevation_m - depth_m exactly, with
\* elevation_m the raster sample at the record's point and depth_m the
\* converted depth, none of them rounded.
C4_PotentialAlgebra ==
    Computed =>
        \A k \in 1..Len(result.records) :
            LET r == result.records[k]
                row == InputRow(r)
            IN /\ ~r.Potential_m.nan /\ ~r.DEM_m.nan /\ ~r.Depth_m.nan
               /\ r.Potential_m.v = r.DEM_m.v - r.Depth_m.v
               /\ r.DEM_m = ExpectedSample(r.Lat, r.Lon)
               /\ IF IsFeet(result.depth_unit)
                  THEN r.Depth_m.v * FT_DEN = InputDepth(row).v * FT_NUM
                  ELSE r.Depth_m = InputDepth(row)

\* 100 ft of depth under the south-east cell: 30.48 m below its elevation
C4_Witness ==
    /\ Computed /\ result.status = "ok"
    /\ IsFeet(result.depth_unit)
    /\ \E k \in 1..Len(result.records) :
          /\ result.records[k].Depth_m = F(100 * FT_NUM)
          /\ result.records[k].DEM_m = Elevation(MaxGridRows - 1, MaxGridCols - 1)
          /\ result.records[k].Potential_m.v
                = Elevation(MaxGridRows - 1, MaxGridCols - 1).v - 100 * FT_NUM

Survives(row) ==
    /\ ~IsNaN(row[Lat]) /\ ~IsNaN(row[Lon]) /\ ~IsNaN(InputDepth(row))
    /\ ~IsNaN(ExpectedSample(row[Lat], row[Lon]))

InOutput(i) == \E k \in 1..Len(result.records) : result.records[k].idx = i - 1

\* C5: a row is in the output exactly when its lat, lon and depth are all
\* present and the raster sample at its point is not NaN; a row failing this
\* neither aborts the computation nor removes another row.
C5_SurvivesIff ==
    Computed =>
        /\ result.status = "ok"
        /\ \A i \in 1..Len(df.rows) : InOutput(i) <=> Survives(df.rows[i])

\* one row kept between a row with no depth and a row outside the raster
C5_Witness ==
    /\ Computed /\ result.status = "ok"
    /\ Len(df.rows) = 3
    /\ IsNaN(InputDepth(df.rows[1])) /\ ~InOutput(1)
    /\ Survives(df.rows[2]) /\ InOutput(2)
    /\ ~PointInside(df.rows[3][Lat], df.rows[3][Lon]) /\ ~InOutput(3)

\* C6: the output is a subsequence of the input rows: records follow the
\* order of their input rows, none is duplicated, and a dropped row leaves
\* no placeholder.
C6_Subsequence ==
    Computed =>
        /\ \A k \in 1..Len(result.records) :
              LET r == result.records[k]
              IN /\ r.idx \in 0..(Len(df.rows) - 1)
                 /\ r.Lat = InputRow(r)[Lat] /\ r.Lon = InputRow(r)[Lon]
                 /\ ~r.Lat.nan /\ ~r.Lon.nan /\ ~r.Depth_m.nan
                 /\ ~r.DEM_m.nan /\ ~r.Potential_m.nan
        /\ \A j, k \in 1..Len(result.records) :
              j < k => result.records[j].idx < result.records[k].idx
        /\ result.total_points = Len(result.records)

\* the first and the third row survive, the second is dropped
C6_Witness ==
    /\ Computed /\ result.status = "ok"
    /\ Len(df.rows) = 3
    /\ Len(result.records) = 2
    /\ result.records[1].idx = 0 /\ result.records[2].idx = 2
    /\ result.records[1].Lat # result.records[2].Lat

\* the input rows that pass both filters
Survivors == {i \in 1..Len(df.rows) : Survives(df.rows[i])}

StatisticNames == {"depth_m", "dem_m", "potential_m"}

AggregateNames == {"min", "max", "mean"}

\* C14: when zero records survive the filtering, every reported statistic
\* (min, max and mean of depth_m, dem_m and potential_m) is null, the record
\* count is 0 and the call returns a normal result, not an error.
C14_EmptyStatisticsNull ==
    (Computed /\ Survivors = {}) =>
        /\ result.status = "ok"
        /\ result.total_points = 0
        /\ \A c \in StatisticNames, k \in AggregateNames :
              result.statistics[c][k].token = "null"

\* the record column a statistic is taken over
StatisticColumn(c) ==
    CASE c = "depth_m" -> "Depth_m" [] c = "dem_m" -> "DEM_m" [] c = "potential_m" -> "Potential_m"

\* the value a surviving input row has in a record column
SurvivorValue(i, column) ==
    result.records[CHOOSE k \in 1..Len(result.records) : result.records[k].idx = i - 1][column].v

RECURSIVE SurvivorSum(_, _)
SurvivorSum(S, column) ==
    IF S = {} THEN 0
    ELSE LET i == CHOOSE i \in S : TRUE
         IN SurvivorValue(i, column) + SurvivorSum(S \ {i}, column)

\* h hundredths is a nearest two-decimal value to the length p / q
NearestHundredth(h, p, q) ==
    LET d == 100 * p - h * FT_DEN * q
    IN 2 * d <= FT_DEN * q /\ -2 * d <= FT_DEN * q

\* C15: the min, max and mean reported for depth_m, dem_m and potential_m are
\* those of exactly the surviving rows (the rows passing the missing-value
\* and the no-coverage filter), to two decimals, and total_points is the
\* number of surviving rows.
C15_StatisticsOverSurvivors ==
    (Computed /\ result.status = "ok") =>
        /\ result.total_points = Cardinality(Survivors)
        /\ Survivors # {} =>
             \A c \in StatisticNames :
                LET column == StatisticColumn(c)
                    stat == result.statistics[c]
                IN /\ \A k \in AggregateNames : stat[k].token = "number"
                   /\ \E i \in Survivors :
                         /\ \A j \in Survivors : SurvivorValue(i, column) <= SurvivorValue(j, column)
                         /\ NearestHundredth(stat.min.hundredths, SurvivorValue(i, column), 1)
                   /\ \E i \in Survivors :
                         /\ \A j \in Survivors : SurvivorValue(i, column) >= SurvivorValue(j, column)
                         /\ NearestHundredth(stat.max.hundredths, SurvivorValue(i, column), 1)
                   /\ NearestHundredth(stat.mean.hundredths, SurvivorSum(Survivors, column),
                                       Cardinality(Survivors))

\* two rows at 30 ft and one at 100 ft survive beside no dropped row: the mean
\* depth, 16.26 m, is not the middle of the least and the greatest
C15_Witness ==
    /\ Computed /\ result.status = "ok"
    /\ IsFeet(result.depth_unit)
    /\ Cardinality(Survivors) = 3 /\ result.total_points = 3
    /\ result.statistics.depth_m.min.hundredths = 914
    /\ result.statistics.depth_m.max.hundredths = 3048
    /\ result.statistics.depth_m.mean.hundredths = 1626

\* the same call on the table that holds row i alone
Alone(i) ==
    LET t == [columns |-> df.columns, rows |-> <<df.rows[i]>>]
    IN IF result.op = "calculate_potential"
       THEN calculate_potential(t, result.depth_col, result.depth_unit, Lat, Lon, TRUE, dem, bounds, http_status)
       ELSE create_potential_dataset(t, result.depth_col, result.depth_unit, Lat, Lon, TRUE, dem, bounds, http_status)

\* what row i yields when processed alone, under the row's own index label
AloneRecords(i) ==
    [k \in 1..Len(Alone(i).records) |-> [Alone(i).records[k] EXCEPT !.idx = i - 1]]

\* the survivors of rows 1..n, each processed alone, put in input row order
RECURSIVE Assembled(_)
Assembled(n) == IF n = 0 THEN <<>> ELSE Assembled(n - 1) \o AloneRecords(n)

\* C23: the per-row transform has no inter-row dependency: processing every
\* row on its own, in whatever order, and assembling the survivors in input
\* row order yields the sequence of records of the sequential computation.
C23_RowsIndependent ==
    (Computed /\ result.status = "ok") =>
        result.records = Assembled(Len(df.rows))

\* three rows, the middle one dropped, the other two under different cells
C23_Witness ==
    /\ Computed /\ result.status = "ok"
    /\ Len(df.rows) = 3 /\ Len(result.records) = 2
    /\ AloneRecords(2) = <<>>
    /\ result.records = AloneRecords(1) \o AloneRecords(3)
    /\ result.records[1].DEM_m # result.records[2].DEM_m

----------------------------------------------------------------------------
(* Claims about the inference of the depth column *)

Digits == {"0", "1", "2", "3", "4", "5", "6", "7", "8", "9"}

\* characters in code-point order, as far as column names use them
CodeOrder == <<"-", "0", "1", "2", "3", "4", "5", "6", "7", "8", "9",
               "A", "B", "C", "D", "E", "F", "G", "H", "I", "J", "K", "L", "M",
               "N", "O", "P", "Q", "R", "S", "T", "U", "V", "W", "X", "Y", "Z",
               "a", "b", "c", "d", "e", "f", "g", "h", "i", "j", "k", "l", "m",
               "n", "o", "p", "q", "r", "s", "t", "u", "v", "w", "x", "y", "z">>

Code(ch) == CHOOSE k \in 1..Len(CodeOrder) : CodeOrder[k] = ch

\* a <= b in lexicographic order
LexLeq(a, b) ==
    \/ \E i \in 1..Len(a) :
          /\ i <= Len(b)
          /\ \A j \in 1..(i - 1) : a[j] = b[j]
          /\ Code(a[i]) < Code(b[i])
    \/ Len(a) <= Len(b) /\ \A j \in 1..Len(a) : a[j] = b[j]

\* a 10-character YYYY-MM-DD name
IsYMD(c) ==
    /\ Len(c) = 10
    /\ c[5] = "-" /\ c[8] = "-"
    /\ \A i \in {1, 2, 3, 4, 6, 7, 9, 10} : c[i] \in Digits

YMDColumns == {c \in {df.columns[i].name : i \in 1..Len(df.columns)} : IsYMD(c)}

\* C10: with no depth column given and one or more YYYY-MM-DD columns in the
\* table, inference selects the lexicographically last of them, whatever
\* their order in the table.
C10_LatestDateColumn ==
    (Computed /\ result.status = "ok" /\ result.depth_col = None
        /\ YMDColumns # {}) =>
        /\ result.depth_column \in YMDColumns
        /\ \A c \in YMDColumns : LexLeq(c, result.depth_column)

\* "date-like" as the code tests it: a 10-character name with a '-' in it
TenCharsWithDash(c) == Len(c) = 10 /\ \E i \in 1..10 : c[i] = "-"

DateLikeColumns ==
    {c \in {df.columns[i].name : i \in 1..Len(df.columns)} : TenCharsWithDash(c)}

\* the numeric columns that are not Lat, Lon or Site, in table order
FreeNumericColumns ==
    SelectSeq(ColumnNames(df), LAMBDA c : IsNumericColumn(df, c) /\ c \notin {Lat, Lon, Site})

InferenceFails ==
    result.depth_col = None /\ DateLikeColumns = {} /\ FreeNumericColumns = <<>>

InvalidUnit(unit) == ~IsFeet(unit) /\ ~IsMeters(unit)

\* C13: a fatal error, whether a failed column inference or an invalid unit,
\* aborts the whole computation with no partial result: the call ends in an
\* error with no records and no output file and, when it is the inference
\* that failed, without the raster having been fetched.
C13_FatalAborts ==
    (Computed /\ (InferenceFails \/ InvalidUnit(result.depth_unit))) =>
        /\ result.status = "error"
        /\ result.records = <<>>
        /\ ~result.written
        /\ InferenceFails => ~result.fetch_called

----------------------------------------------------------------------------
(* Claims about the percentile classifier *)

Classified == classified.op = "calculate_percentile_class"

\* the ranks whose boundary value is present in the record, and their values
AnchorRanks ==
    {PercentileRanks[i] : i \in {j \in 1..Len(PercentileRanks) : ~pct_data[PercentileKeys[j]].null}}

AnchorValue(p) ==
    pct_data[PercentileKeys[CHOOSE i \in 1..Len(PercentileRanks) : PercentileRanks[i] = p]].v

\* anchors next to each other once the absent ones are left out
Adjacent(p, q) ==
    /\ p \in AnchorRanks /\ q \in AnchorRanks /\ p < q
    /\ ~\E r \in AnchorRanks : p < r /\ r < q

\* the classified depth lies in the bracket of the adjacent anchors p and q
InBracket(p, q) ==
    /\ Adjacent(p, q)
    /\ AnchorValue(q) <= classified.depth.v /\ classified.depth.v <= AnchorValue(p)

\* the ranks as they are written in a label
RankName(p) ==
    CASE p = 0 -> <<"0">> [] p = 10 -> <<"1", "0">> [] p = 25 -> <<"2", "5">>
      [] p = 50 -> <<"5", "0">> [] p = 75 -> <<"7", "5">> [] p = 90 -> <<"9", "0">>
      [] p = 100 -> <<"1", "0", "0">>

\* the label "p-q" with the rank estimate floor((p + q) / 2)
IsBracketResult(p, q) ==
    /\ classified.label = RankName(p) \o <<"-">> \o RankName(q)
    /\ ~classified.rank.null
    /\ 2 * classified.rank.v <= p + q /\ p + q < 2 * classified.rank.v + 2

\* C16: with fewer than 2 anchors holding a non-null value the classifier
\* returns (null, null), whatever the observed value.
C16_TooFewAnchors ==
    (Classified /\ Cardinality(AnchorRanks) < 2) =>
        (classified.label = None /\ classified.rank = PyNone)

\* a depth above the only anchor of its record
C16_Witness ==
    /\ Classified /\ Cardinality(AnchorRanks) = 1
    /\ ~classified.depth.null
    /\ \A p \in AnchorRanks : classified.depth.v > AnchorValue(p)
    /\ classified.label = None /\ classified.rank = PyNone

\* C17 as stated: with at least 2 valid anchors, a value lying in the bracket
\* of adjacent anchors p and q (value of q <= value <= value of p) is given
\* the label "p-q" and the rank estimate floor((p + q) / 2).
C17_EveryBracket ==
    (Classified /\ ~classified.depth.null /\ Cardinality(AnchorRanks) >= 2) =>
        \A p, q \in AnchorRanks : InBracket(p, q) => IsBracketResult(p, q)

\* C17, amended: the value is given the label and rank estimate of the bracket
\* it lies in that has the lowest ranks; a value lying in one bracket only is
\* given that bracket's.
C17_LowestBracket ==
    (Classified /\ ~classified.depth.null /\ Cardinality(AnchorRanks) >= 2) =>
        \A p, q \in AnchorRanks :
            (InBracket(p, q) /\ ~\E p0, q0 \in AnchorRanks : p0 < p /\ InBracket(p0, q0))
                => IsBracketResult(p, q)

\* the worked example: 15 ft lies between the 25 % and the 50 % boundary
C17_Witness ==
    /\ Classified /\ pct_data = ExamplePercentiles
    /\ classified.depth = Num(15)
    /\ InBracket(25, 50)
    /\ classified.label = <<"2", "5", "-", "5", "0">>
    /\ classified.rank = Num(37)

\* C18: with at least 2 valid anchors, a value above the largest anchor value
\* is given the label "<p", p the rank of the lowest-rank valid anchor, and
\* the rank estimate 0.
C18_AboveLargest ==
    (/\ Classified /\ ~classified.depth.null /\ Cardinality(AnchorRanks) >= 2
     /\ \A p \in AnchorRanks : classified.depth.v > AnchorValue(p)) =>
        /\ \E p \in AnchorRanks :
              /\ \A q \in AnchorRanks : p <= q
              /\ classified.label = <<"<">> \o RankName(p)
        /\ classified.rank = Num(0)

\* the 0 % boundary is absent: the label names the 10 % boundary
C18_Witness ==
    /\ Classified /\ ~classified.depth.null /\ Cardinality(AnchorRanks) >= 2
    /\ \A p \in AnchorRanks : classified.depth.v > AnchorValue(p)
    /\ 0 \notin AnchorRanks /\ 10 \in AnchorRanks
    /\ classified.label = <<"<", "1", "0">>
    /\ classified.rank = Num(0)

\* C19: with at least 2 valid anchors, a value below the smallest anchor value
\* is given the label ">p", p the rank of the highest-rank valid anchor, and
\* the rank estimate 100.
C19_BelowSmallest ==
    (/\ Classified /\ ~classified.depth.null /\ Cardinality(AnchorRanks) >= 2
     /\ \A p \in AnchorRanks : classified.depth.v < AnchorValue(p)) =>
        /\ \E p \in AnchorRanks :
              /\ \A q \in AnchorRanks : q <= p
              /\ classified.label = <<">">> \o RankName(p)
        /\ classified.rank = Num(100)

\* the 100 % boundary is absent: the label names the 90 % boundary
C19_Witness ==
    /\ Classified /\ ~classified.depth.null /\ Cardinality(AnchorRanks) >= 2
    /\ \A p \in AnchorRanks : classified.depth.v < AnchorValue(p)
    /\ 100 \notin AnchorRanks /\ 90 \in AnchorRanks
    /\ classified.label = <<">", "9", "0">>
    /\ classified.rank = Num(100)

\* at least 2 valid anchors, their values non-increasing as the rank increases
WellFormed ==
    /\ Cardinality(AnchorRanks) >= 2
    /\ \A p, q \in AnchorRanks : p < q => AnchorValue(p) >= AnchorValue(q)

\* C20: on a well-formed record every non-null value is given a non-null
\* label and a non-null rank estimate.
C20_WellFormedClassifies ==
    (Classified /\ ~classified.depth.null /\ WellFormed) =>
        (classified.label # None /\ ~classified.rank.null)

\* three anchors of decreasing value and a depth equal to the largest
C20_Witness ==
    /\ Classified /\ ~classified.depth.null /\ WellFormed
    /\ Cardinality(AnchorRanks) = 3
    /\ \A p, q \in AnchorRanks : p < q => AnchorValue(p) > AnchorValue(q)
    /\ \E p \in AnchorRanks :
          /\ \A q \in AnchorRanks : p <= q
          /\ classified.depth.v = AnchorValue(p)
    /\ classified.label # None /\ ~classified.rank.null

\* C21: the rank estimate of every result is null or an integer in 0..100,
\* and the label is null exactly when the rank estimate is null.
C21_RankInRange ==
    Classified =>
        /\ classified.rank.null \/ classified.rank.v \in 0..100
        /\ (classified.label = None) <=> classified.rank.null

\* a value between the 75 % and the 90 % boundary: the estimate is 82
C21_Witness ==
    /\ Classified /\ InBracket(75, 90)
    /\ classified.label = <<"7", "5", "-", "9", "0">>
    /\ classified.rank = Num(82)

\* C25: on every record with at least 2 non-null anchors, monotonic by rank
\* or not, every non-null value is given a result other than (null, null):
\* a bracket or one of the two edge conditions applies.
C25_NeverFallsThrough ==
    (Classified /\ ~classified.depth.null /\ Cardinality(AnchorRanks) >= 2) =>
        ~(classified.label = None /\ classified.rank = PyNone)

\* anchors rising and falling by rank, and a value between the first and the
\* last that only the second bracket holds
C25_Witness ==
    /\ Classified /\ ~classified.depth.null /\ ~WellFormed
    /\ Cardinality(AnchorRanks) = 3
    /\ \E p, q, r \in AnchorRanks :
          /\ p < q /\ q < r
          /\ AnchorValue(p) < AnchorValue(q)
          /\ AnchorValue(r) <= classified.depth.v /\ classified.depth.v <= AnchorValue(p)
          /\ IsBracketResult(q, r)

\* C27: a value lying in more than one adjacent bracket is given the result
\* of the one with the lowest ranks, the first in ascending rank order.
C27_FirstOfSeveral ==
    (/\ Classified /\ ~classified.depth.null
     /\ \E p, q, r, t \in AnchorRanks : p # r /\ InBracket(p, q) /\ InBracket(r, t)) =>
        \E p, q \in AnchorRanks :
            /\ InBracket(p, q)
            /\ \A r, t \in AnchorRanks : InBracket(r, t) => p <= r
            /\ IsBracketResult(p, q)

\* the worked example: 18 ft is the 25 % boundary and ends both 10-25 and 25-50
C27_Witness ==
    /\ Classified /\ pct_data = ExamplePercentiles
    /\ classified.depth = Num(18)
    /\ InBracket(10, 25) /\ InBracket(25, 50)
    /\ classified.label = <<"1", "0", "-", "2", "5">>
    /\ classified.rank = Num(17)

ClassifiedAfter == Classified /\ "before" \in DOMAIN classified

\* C26: on a well-formed record the rank estimate does not increase with the
\* observed value: of two classified values, the one that is not the greater
\* has a rank estimate that is not the smaller.
C26_RankMonotone ==
    (/\ ClassifiedAfter /\ WellFormed
     /\ classified.before.depth.v <= classified.depth.v) =>
        /\ ~classified.before.rank.null /\ ~classified.rank.null
        /\ classified.before.rank.v >= classified.rank.v

\* a shallower value first, in a bracket, then a deeper one in a bracket of
\* lower ranks
C26_Witness ==
    /\ ClassifiedAfter /\ WellFormed
    /\ classified.before.depth.v < classified.depth.v
    /\ classified.rank.v > 0
    /\ classified.before.rank.v > classified.rank.v
    /\ classified.before.rank.v < 100

----------------------------------------------------------------------------
(* Claims about the frame of the calls *)

\* the inputs are after a call what they were before it
InputsKept == dem' = dem /\ bounds' = bounds /\ pct_data' = pct_data /\ df' = df

\* a call answers from its arguments and the inputs alone, whatever the
\* calls before it answered
NothingRetained ==
    /\ call' # call =>
          call'.out = get_dem_value(call'.lat, call'.lon, dem, bounds).out
    /\ classified' # classified =>
          /\ classified'.label = calculate_percentile_class(classified'.depth, pct_data).label
          /\ classified'.rank = calculate_percentile_class(classified'.depth, pct_data).rank
    /\ result' # result =>
          result'.records =
              IF result'.op = "calculate_potential"
              THEN calculate_potential(df, result'.depth_col, result'.depth_unit, Lat, Lon, TRUE, dem, bounds, http_status).records
              ELSE create_potential_dataset(df, result'.depth_col, result'.depth_unit, Lat, Lon, TRUE, dem, bounds, http_status).records

----------------------------------------------------------------------------
(* Claims about fetch_cadwr_data *)

Fetched == points_data.op = "fetch_cadwr_data"

\* a well with a site code, a latitude and a longitude
Complete(well) == well.site_code # "" /\ ~well.lat.null /\ ~well.lon.null

CompleteWells == SelectSeq(wells, Complete)

\* the percentile service has an entry for the site; the entry that counts
\* is the last one
HasPercentiles(site_code) == \E i \in 1..Len(pct_wells) : pct_wells[i].site_code = site_code

SiteEntry(site_code) ==
    pct_wells[CHOOSE i \in 1..Len(pct_wells) :
                 /\ pct_wells[i].site_code = site_code
                 /\ \A j \in 1..Len(pct_wells) : pct_wells[j].site_code = site_code => j <= i]

\* C29: the percentile_class of a well is the recomputed class exactly when
\* the site has percentile data, the well's depth_ft is not null and the
\* classifier returns a non-null label; otherwise it is the class the service
\* supplied, or the empty string when the site has no percentile data.  The
\* points are the wells that have a site code, a latitude and a longitude.
C29_ClassReplacedOnlyWhenComputed ==
    Fetched =>
        /\ \A k \in 1..Len(points_data.points) :
              LET point == points_data.points[k]
              IN point.site_no # "" /\ ~point.lat.null /\ ~point.lon.null
        /\ http_status = 200 =>
              /\ Len(points_data.points) = Len(CompleteWells)
              /\ \A k \in 1..Len(CompleteWells) :
                    LET well == CompleteWells[k]
                        point == points_data.points[k]
                        known == HasPercentiles(well.site_code)
                        label == IF known
                                 THEN calculate_percentile_class(well.depth_ft, SiteEntry(well.site_code).pct).label
                                 ELSE None
                        replaced == known /\ ~well.depth_ft.null /\ label # None
                    IN /\ point.site_no = well.site_code
                       /\ point.depth_ft = well.depth_ft
                       /\ point.percentile_class =
                             IF replaced THEN label
                             ELSE IF known THEN SiteEntry(well.site_code).percentile_class
                             ELSE <<>>

\* of two wells one has no latitude; the other, at depth 0, is given the
\* class above the 100 % boundary in place of the service's
C29_Witness ==
    /\ Fetched /\ http_status = 200
    /\ Len(wells) = 2 /\ Len(points_data.points) = 1
    /\ points_data.points[1].depth_ft = Num(0)
    /\ HasPercentiles(points_data.points[1].site_no)
    /\ SiteEntry(points_data.points[1].site_no).percentile_class = <<"N">>
    /\ points_data.points[1].percentile_class = <<">", "1", "0", "0">>

----------------------------------------------------------------------------
(* Claims about get_measurement_history *)

Answered == history.op = "get_measurement_history" /\ history.status = "ok"

\* C30: every measurement returned is dated from start_date to end_date, each
\* bound counting only when it is given and both inclusive; the measurements
\* are in ascending order of date; and count is their number.
C30_HistoryInRangeAndSorted ==
    Answered =>
        /\ \A k \in 1..Len(history.measurements) :
              LET d == history.measurements[k].date
              IN /\ history.start_date # None => LexLeq(history.start_date, d)
                 /\ history.end_date # None => LexLeq(d, history.end_date)
        /\ \A k \in 1..(Len(history.measurements) - 1) :
              LexLeq(history.measurements[k].date, history.measurements[k + 1].date)
        /\ history.count = Len(history.measurements)

\* three records held latest first, the one of the last day with a time of
\* day: all three are returned, earliest first, the bounds being their dates
C30_Witness ==
    /\ Answered
    /\ Len(records.records) = 3
    /\ records.records[1].msmt_date = Date2Morning
    /\ records.records[3].msmt_date = Date1
    /\ history.start_date = Date1 /\ history.end_date = Date2
    /\ history.count = 3
    /\ history.measurements[1].date = Date1
    /\ history.measurements[3].date = Date2

====
